---- MODULE Spec2Model ----
(***************************************************************************)
(* Model of reddit-gallery-dl: the download handlers of handlers.go        *)
(* (handleDownloadZip, handleDownloadSingle, serveSingleImage), the image  *)
(* helpers (resolvedExt, streamImage, detectExtension) and the Reddit      *)
(* client (FetchGallery, resolveURL, extractImages, StreamImage).          *)
(*                                                                         *)
(* One HTTP request is one behaviour: Init chooses the request (route,     *)
(* method, form, selected URLs, format), the handler runs step by step,    *)
(* and the client may disconnect (Cancel) between any two steps.           *)
(***************************************************************************)
EXTENDS Integers, Sequences, FiniteSets, TLC

VARIABLES
    route,      \* "zip" (/download-zip) or "single" (/download-single)
    method,     \* r.Method
    formOK,     \* r.ParseForm() succeeded
    urls,       \* r.Form["image_urls"] (or the one "url" query value)
    format,     \* r.FormValue("format")
    pc,         \* position of the handler
    i,          \* 1-based position of the loop in urls (Go's i + 1)
    cancelled,  \* r.Context().Err() != nil
    zNew,       \* zip.NewWriter(w) has been called
    entries,    \* entries of the archive, in the order z.Create made them
    trailer,    \* number of times z.Close() wrote the central directory
    open,       \* positions whose response body is open
    visited,    \* positions StreamImage was called for, in call order
    requests,   \* positions an outbound GET was actually issued for
    resp,       \* what the caller receives: status, headers, body
    lastErr,    \* error of the last streamImage call ("none" if nil)
    atCancel,   \* history: pc, entries and number of requests at the moment
                \* the client disconnected (pc "none" before)
    rInput,     \* resolveURL: the inputURL argument
    rPc,        \* resolveURL: position ("start", "share", "done")
    rURL,       \* resolveURL: inputURL after trimming and prefixing
    rResult,    \* resolveURL: what it returned (err, url)
    rRequests,  \* resolveURL: URLs requested with the no-redirect client
    rEnv,       \* what the upstream answered to the share-link request
    cOp,        \* client call: "FetchGallery" or "StreamImage"
    cInput,     \* client call: the URL argument, with the upstream's answer
                \* to a share-link request
    cUp,        \* client call: what the upstream answers
    cPc,        \* client call: position
    cRequests,  \* client call: URLs requested, in order
    cBody,      \* client call: a response body is open
    cResult,    \* client call: what it returned
    cURL,       \* FetchGallery: the URL of the listing (apiURL)
    xIn,        \* extension: asset URL, content type, format, mime table
    xPc,        \* extension: position
    xExt,       \* extension: what detectExtension returned
    xOut,       \* extension: what resolvedExt returned
    sIn,        \* streamImage: the source, the format, whether reads of the
                \* source and writes to the sink succeed
    sPc,        \* streamImage: position
    sOut,       \* streamImage: the error returned and what reached the sink
    fIn,        \* cleanFilename: the argument
    fPc,        \* cleanFilename: position
    fOut        \* cleanFilename: what it returned

dlVars == <<route, method, formOK, urls, format, pc, i, cancelled, zNew,
            entries, trailer, open, visited, requests, resp, lastErr,
            atCancel>>

rVars == <<rInput, rPc, rURL, rResult, rRequests, rEnv>>

cVars == <<cOp, cInput, cUp, cPc, cRequests, cBody, cResult, cURL>>

xVars == <<xIn, xPc, xExt, xOut>>

sVars == <<sIn, sPc, sOut>>

fVars == <<fIn, fPc, fOut>>

vars == <<dlVars, rVars, cVars, xVars, sVars, fVars>>

(***************************************************************************)
(* Bounds                                                                  *)
(***************************************************************************)
MaxUrls == 4

(***************************************************************************)
(* The environment: what the upstream serves for a URL.                    *)
(*   transport client.Do fails (no response)                               *)
(*   status    the status code of the response                             *)
(*   decodable image.Decode accepts the body                               *)
(*   ext       what detectExtension returns for the URL and content type   *)
(*   stem      last path segment without its extension, "" when the last   *)
(*             segment holds no dot                                        *)
(***************************************************************************)
AssetKinds ==
    { [transport |-> FALSE, status |-> 200, decodable |-> TRUE,
       ext |-> ".png", stem |-> "pic"],
      [transport |-> FALSE, status |-> 200, decodable |-> FALSE,
       ext |-> ".jpg", stem |-> ""],
      [transport |-> FALSE, status |-> 404, decodable |-> FALSE,
       ext |-> ".jpg", stem |-> ""],
      [transport |-> TRUE,  status |-> 0,   decodable |-> FALSE,
       ext |-> ".jpg", stem |-> ""] }

Formats == {"", "original", "jpeg", "png", "bmp"}

Methods == {"GET", "POST"}

Routes == {"zip", "single"}

RECURSIVE SeqsUpTo(_, _)
SeqsUpTo(S, n) ==
    IF n = 0 THEN {<<>>}
    ELSE LET shorter == SeqsUpTo(S, n - 1)
         IN  shorter \cup {Append(s, x) : s \in {t \in shorter : Len(t) = n - 1}, x \in S}

(***************************************************************************)
(* part_004: isOriginalFormat, resolvedExt, streamImage                    *)
(***************************************************************************)
isOriginalFormat(f) == f = "" \/ f = "original"

\* "." + format
DotFormat(f) == "." \o f

resolvedExt(originalExt, f) ==
    IF isOriginalFormat(f) THEN originalExt
    ELSE IF f = "jpeg" THEN ".jpg"
    ELSE DotFormat(f)

EncodeTargets == {"jpg", "jpeg", "png", "gif"}

\* streamImage with the target format examined before the source is decoded
streamImageFormatFirst(a, f, readOK, writeOK) ==
    IF isOriginalFormat(f)
    THEN IF readOK /\ writeOK
         THEN [err |-> "none", written |-> "complete"]
         ELSE [err |-> "copy", written |-> "partial"]
    ELSE IF f \notin EncodeTargets
         THEN [err |-> "unsupported", written |-> "empty"]
    ELSE IF ~readOK \/ ~a.decodable
         THEN [err |-> "decode", written |-> "empty"]
    ELSE IF writeOK
         THEN [err |-> "none", written |-> "complete"]
         ELSE [err |-> "encode", written |-> "partial"]

\* streamImage(src, format, dst): the error it returns and what reached dst.
\*   readOK   every read of src succeeds
\*   writeOK  every write to dst succeeds
\* written: "complete" (the whole output), "partial" (a prefix), "empty".
streamImage(a, f, readOK, writeOK) ==
    IF isOriginalFormat(f)
    THEN IF readOK /\ writeOK
         THEN [err |-> "none", written |-> "complete"]
         ELSE [err |-> "copy", written |-> "partial"]
    ELSE IF ~readOK \/ ~a.decodable
         THEN [err |-> "decode", written |-> "empty"]
    ELSE IF f \in EncodeTargets
         THEN IF writeOK
              THEN [err |-> "none", written |-> "complete"]
              ELSE [err |-> "encode", written |-> "partial"]
    ELSE [err |-> "unsupported", written |-> "empty"]

(***************************************************************************)
(* part_002: RedditClient.StreamImage                                      *)
(* With a cancelled context client.Do fails before a request is sent.      *)
(*   issued    an outbound GET was sent                                    *)
(*   err       "none", "transport" or "status" (with the status code)      *)
(*   leftOpen  a response body is open when StreamImage returns            *)
(***************************************************************************)
\* http.StatusOK
StatusOK == 200

\* a client whose requests do not carry the context
StreamImageNoCtx(a, ctxDone) ==
    CASE a.transport ->
           [issued |-> TRUE, err |-> "transport", code |-> 0, leftOpen |-> FALSE]
      [] a.status # StatusOK ->
           [issued |-> TRUE, err |-> "status", code |-> a.status, leftOpen |-> FALSE]
      [] OTHER ->
           [issued |-> TRUE, err |-> "none", code |-> 0, leftOpen |-> TRUE]

\* a client that does not close the body of a non-200 response
StreamImageLeak(a, ctxDone) ==
    IF ctxDone
    THEN [issued |-> FALSE, err |-> "transport", code |-> 0, leftOpen |-> FALSE]
    ELSE CASE a.transport ->
                [issued |-> TRUE, err |-> "transport", code |-> 0, leftOpen |-> FALSE]
           [] a.status # StatusOK ->
                [issued |-> TRUE, err |-> "status", code |-> a.status, leftOpen |-> TRUE]
           [] OTHER ->
                [issued |-> TRUE, err |-> "none", code |-> 0, leftOpen |-> TRUE]

\* a client that takes every 2xx status for success
StreamImageAny2xx(a, ctxDone) ==
    IF ctxDone
    THEN [issued |-> FALSE, err |-> "transport", code |-> 0, leftOpen |-> FALSE]
    ELSE CASE a.transport ->
                [issued |-> TRUE, err |-> "transport", code |-> 0, leftOpen |-> FALSE]
           [] a.status \notin 200..299 ->
                [issued |-> TRUE, err |-> "status", code |-> a.status, leftOpen |-> FALSE]
           [] OTHER ->
                [issued |-> TRUE, err |-> "none", code |-> 0, leftOpen |-> TRUE]

\* lines 220-228: Do fails; or the status is not 200 and the body is closed;
\* or the body is handed to the caller
StreamImage(a, ctxDone) ==
    IF ctxDone
    THEN [issued |-> FALSE, err |-> "transport", code |-> 0, leftOpen |-> FALSE]
    ELSE CASE a.transport ->
                [issued |-> TRUE, err |-> "transport", code |-> 0, leftOpen |-> FALSE]
           [] a.status # StatusOK ->
                [issued |-> TRUE, err |-> "status", code |-> a.status, leftOpen |-> FALSE]
           [] OTHER ->
                [issued |-> TRUE, err |-> "none", code |-> 0, leftOpen |-> TRUE]

(***************************************************************************)
(* Archive entry names: fmt.Sprintf("image_%03d%s", i+1, ext)              *)
(***************************************************************************)
Pad3(n) == <<(n \div 100) % 10, (n \div 10) % 10, n % 10>>

EntryName(n, ext) == <<"image_">> \o Pad3(n) \o <<ext>>

NameNumber(name) == name[2] * 100 + name[3] * 10 + name[4]

\* numbering by emission: one more than the entries already written
EntryNumberByEmission(pos, written) == written + 1

\* line 138, i+1: the number handleDownloadZip gives the entry of the URL at
\* position pos when `written` entries are already in the archive
EntryNumber(pos, written) == pos

(***************************************************************************)
(* Responses                                                               *)
(***************************************************************************)
NotCancelled == [pc |-> "none", entries |-> <<>>, requests |-> 0]

NoResp == [status |-> 0, ctype |-> "", disp |-> <<>>, body |-> "none"]

\* mime.TypeByExtension, built-in table
TypeByExtension(ext) ==
    CASE ext = ".jpg"  -> "image/jpeg"
      [] ext = ".jpeg" -> "image/jpeg"
      [] ext = ".png"  -> "image/png"
      [] ext = ".gif"  -> "image/gif"
      [] ext = ".webp" -> "image/webp"
      [] OTHER         -> ""

\* serveSingleImage's file name
SingleFileName(a, finalExt) ==
    IF a.stem = "" THEN <<"image", finalExt>> ELSE <<a.stem, finalExt>>

(***************************************************************************)
(* State after the request has arrived and before the handler runs         *)
(***************************************************************************)
DlIdle ==
    /\ pc = "start"
    /\ i = 0
    /\ cancelled = FALSE
    /\ zNew = FALSE
    /\ entries = <<>>
    /\ trailer = 0
    /\ open = {}
    /\ visited = <<>>
    /\ requests = <<>>
    /\ resp = NoResp
    /\ lastErr = "none"
    /\ atCancel = NotCancelled

DlInit ==
    /\ route \in Routes
    /\ method \in Methods
    /\ formOK \in BOOLEAN
    /\ urls \in SeqsUpTo(AssetKinds, MaxUrls)
    /\ format \in Formats
    \* /download-single reads one "url" query value; "" is the empty list
    /\ route = "single" => (Len(urls) <= 1 /\ formOK /\ method = "GET")
    /\ DlIdle

DlInputs == <<route, method, formOK, urls, format>>

(***************************************************************************)
(* The client disconnects: the request context is cancelled.               *)
(***************************************************************************)
Cancel ==
    /\ pc \notin {"start", "done"}
    /\ ~cancelled
    /\ cancelled' = TRUE
    /\ atCancel' = [pc |-> pc, entries |-> entries, requests |-> Len(requests)]
    /\ UNCHANGED <<DlInputs, pc, i, zNew, entries, trailer, open, visited,
                   requests, resp, lastErr>>
    /\ UNCHANGED <<rVars, cVars, xVars, sVars, fVars>>

(***************************************************************************)
(* handlers.go 97-124: handleDownloadZip up to the loop                    *)
(***************************************************************************)
\* lines 109-117, without the single-image shortcut of lines 114-117
ZipDispatchNoShortcut(n) ==
    IF n = 0 THEN "reject" ELSE "archive"

\* lines 109-117: what a POST with n selected URLs is answered with
ZipDispatch(n) ==
    IF n = 0 THEN "reject"
    ELSE IF n = 1 THEN "single"
    ELSE "archive"

HandleDownloadZip ==
    /\ pc = "start"
    /\ route = "zip"
    /\ IF method # "POST"
       THEN /\ resp' = [NoResp EXCEPT !.status = 303, !.body = "redirect"]
            /\ pc' = "done"
            /\ UNCHANGED <<i, zNew>>
       ELSE IF ~formOK
       THEN /\ resp' = [NoResp EXCEPT !.status = 400, !.body = "error"]
            /\ pc' = "done"
            /\ UNCHANGED <<i, zNew>>
       ELSE IF ZipDispatch(Len(urls)) = "reject"
       THEN /\ resp' = [NoResp EXCEPT !.status = 400, !.body = "error"]
            /\ pc' = "done"
            /\ UNCHANGED <<i, zNew>>
       ELSE IF ZipDispatch(Len(urls)) = "single"
       THEN /\ pc' = "sfetch"
            /\ i' = 1
            /\ UNCHANGED <<resp, zNew>>
       ELSE /\ resp' = [NoResp EXCEPT !.ctype = "application/zip",
                                      !.disp = <<"page_title", ".zip">>]
            /\ zNew' = TRUE
            /\ i' = 1
            /\ pc' = "loop"
    /\ UNCHANGED <<DlInputs, cancelled, entries, trailer, open, visited,
                   requests, lastErr, atCancel>>
    /\ UNCHANGED <<rVars, cVars, xVars, sVars, fVars>>

(***************************************************************************)
(* handlers.go 88-95: handleDownloadSingle                                 *)
(***************************************************************************)
HandleDownloadSingle ==
    /\ pc = "start"
    /\ route = "single"
    /\ IF Len(urls) = 0
       THEN /\ resp' = [NoResp EXCEPT !.status = 400, !.body = "error"]
            /\ pc' = "done"
            /\ UNCHANGED i
       ELSE /\ pc' = "sfetch"
            /\ i' = 1
            /\ UNCHANGED resp
    /\ UNCHANGED <<DlInputs, cancelled, zNew, entries, trailer, open, visited,
                   requests, lastErr, atCancel>>
    /\ UNCHANGED <<rVars, cVars, xVars, sVars, fVars>>

(***************************************************************************)
(* handlers.go 126-130 and the deferred z.Close() of line 124: the head of *)
(* an iteration. The loop is left when the list is exhausted or the        *)
(* context is cancelled; either way the deferred Close writes the trailer. *)
(***************************************************************************)
\* a handler that returns without closing the archive writer
ZipNoClose(t) == t

\* line 124, defer z.Close(): the central directory is written as the
\* handler returns; t counts the trailers written so far
ZipClose(t) == t + 1

ZipLoopHead ==
    /\ pc = "loop"
    /\ IF i > Len(urls) \/ cancelled
       THEN /\ trailer' = ZipClose(trailer)
            /\ resp' = [resp EXCEPT !.status = 200, !.body = "zip"]
            /\ pc' = "done"
       ELSE /\ pc' = "fetch"
            /\ UNCHANGED <<trailer, resp>>
    /\ UNCHANGED <<DlInputs, i, cancelled, zNew, entries, open, visited,
                   requests, lastErr, atCancel>>
    /\ UNCHANGED <<rVars, cVars, xVars, sVars, fVars>>

(***************************************************************************)
(* handlers.go 132-136: body, ext, err := s.reddit.StreamImage(ctx, u)     *)
(***************************************************************************)
\* a failed fetch that ends the loop instead of skipping the item
AbortAfterSkip(pos, n) == n + 1

\* lines 133-136, continue: the position the loop goes on with after the
\* item at pos (of n) was skipped
NextAfterSkip(pos, n) == pos + 1

ZipFetch ==
    /\ pc = "fetch"
    /\ LET r == StreamImage(urls[i], cancelled)
       IN  /\ visited' = Append(visited, i)
           /\ requests' = IF r.issued THEN Append(requests, i) ELSE requests
           /\ open' = IF r.leftOpen THEN open \cup {i} ELSE open
           /\ IF r.err # "none"
              THEN /\ i' = NextAfterSkip(i, Len(urls))
                   /\ pc' = "loop"
              ELSE /\ pc' = "create"
                   /\ UNCHANGED i
    /\ UNCHANGED <<DlInputs, cancelled, zNew, entries, trailer, resp, lastErr,
                   atCancel>>
    /\ UNCHANGED <<rVars, cVars, xVars, sVars, fVars>>

(***************************************************************************)
(* handlers.go 138-143: f, err := z.Create(name). Create writes the local  *)
(* file header to the response; that write can fail only once the client   *)
(* is gone.                                                                *)
(***************************************************************************)
ZipCreate ==
    /\ pc = "create"
    /\ \E createOK \in (IF cancelled THEN BOOLEAN ELSE {TRUE}) :
         IF createOK
         THEN /\ entries' = Append(entries,
                     [name |-> EntryName(EntryNumber(i, Len(entries)),
                                         resolvedExt(urls[i].ext, format)),
                      src |-> i,
                      content |-> "empty"])
              /\ pc' = "stream"
              /\ UNCHANGED <<i, open>>
         ELSE /\ open' = open \ {i}         \* body.Close()
              /\ i' = i + 1                 \* continue
              /\ pc' = "loop"
              /\ UNCHANGED entries
    /\ UNCHANGED <<DlInputs, cancelled, zNew, trailer, visited, requests, resp,
                   lastErr, atCancel>>
    /\ UNCHANGED <<rVars, cVars, xVars, sVars, fVars>>

(***************************************************************************)
(* handlers.go 145-147: streamImage(body, format, f); an error is logged.  *)
(* Reads of the body and writes to the response fail only once the         *)
(* context is cancelled.                                                   *)
(***************************************************************************)
ZipStream ==
    /\ pc = "stream"
    /\ \E readOK \in (IF cancelled THEN BOOLEAN ELSE {TRUE}),
          writeOK \in (IF cancelled THEN BOOLEAN ELSE {TRUE}) :
         LET r == streamImage(urls[i], format, readOK, writeOK)
         IN  /\ entries' = [entries EXCEPT ![Len(entries)].content = r.written]
             /\ lastErr' = r.err
    /\ pc' = "close"
    /\ UNCHANGED <<DlInputs, i, cancelled, zNew, trailer, open, visited,
                   requests, resp, atCancel>>
    /\ UNCHANGED <<rVars, cVars, xVars, sVars, fVars>>

(***************************************************************************)
(* handlers.go 148: body.Close(), then the next iteration                  *)
(***************************************************************************)
ZipBodyClose ==
    /\ pc = "close"
    /\ open' = open \ {i}
    /\ i' = i + 1
    /\ pc' = "loop"
    /\ UNCHANGED <<DlInputs, cancelled, zNew, entries, trailer, visited,
                   requests, resp, lastErr, atCancel>>
    /\ UNCHANGED <<rVars, cVars, xVars, sVars, fVars>>

(***************************************************************************)
(* handlers.go 153-170: serveSingleImage up to the headers                 *)
(***************************************************************************)
ServeFetch ==
    /\ pc = "sfetch"
    /\ LET r == StreamImage(urls[1], cancelled)
           finalExt == resolvedExt(urls[1].ext, format)
       IN  /\ visited' = Append(visited, 1)
           /\ requests' = IF r.issued THEN Append(requests, 1) ELSE requests
           /\ open' = IF r.leftOpen THEN open \cup {1} ELSE open
           /\ IF r.err # "none"
              THEN /\ resp' = [NoResp EXCEPT !.status = 502, !.body = "error"]
                   /\ pc' = "done"
              ELSE /\ resp' = [resp EXCEPT
                                 !.disp = SingleFileName(urls[1], finalExt),
                                 !.ctype = TypeByExtension(finalExt)]
                   /\ pc' = "sstream"
    /\ UNCHANGED <<DlInputs, i, cancelled, zNew, entries, trailer, lastErr,
                   atCancel>>
    /\ UNCHANGED <<rVars, cVars, xVars, sVars, fVars>>

(***************************************************************************)
(* handlers.go 172-175 and the deferred body.Close() of line 158. The      *)
(* error of streamImage is logged; the handler returns without writing a   *)
(* status, so the server sends 200 with whatever body was written.         *)
(***************************************************************************)
ServeStream ==
    /\ pc = "sstream"
    /\ \E readOK \in (IF cancelled THEN BOOLEAN ELSE {TRUE}),
          writeOK \in (IF cancelled THEN BOOLEAN ELSE {TRUE}) :
         LET r == streamImage(urls[1], format, readOK, writeOK)
         IN  /\ resp' = [resp EXCEPT !.status = 200, !.body = r.written]
             /\ lastErr' = r.err
    /\ open' = open \ {1}
    /\ pc' = "done"
    /\ UNCHANGED <<DlInputs, i, cancelled, zNew, entries, trailer, visited,
                   requests, atCancel>>
    /\ UNCHANGED <<rVars, cVars, xVars, sVars, fVars>>

DlNext ==
    \/ Cancel
    \/ HandleDownloadZip
    \/ HandleDownloadSingle
    \/ ZipLoopHead
    \/ ZipFetch
    \/ ZipCreate
    \/ ZipStream
    \/ ZipBodyClose
    \/ ServeFetch
    \/ ServeStream

(***************************************************************************)
(* Strings (Go's strings package), on TLA+ strings                         *)
(***************************************************************************)
Chr(s, k) == SubSeq(s, k, k)

Take(s, n) == SubSeq(s, 1, n)

Drop(s, n) == SubSeq(s, n + 1, Len(s))

HasPrefix(s, p) == Len(s) >= Len(p) /\ Take(s, Len(p)) = p

\* strings.Index, 1-based; 0 when sub does not occur
Index(s, sub) ==
    LET at(k) == SubSeq(s, k, k + Len(sub) - 1) = sub
        ks == {k \in 1..(Len(s) - Len(sub) + 1) : at(k)}
    IN  IF ks = {} THEN 0 ELSE CHOOSE k \in ks : \A j \in ks : k <= j

Contains(s, sub) == Index(s, sub) # 0

\* strings.Cut: the text before and after the first sep
CutBefore(s, sep) == IF Contains(s, sep) THEN Take(s, Index(s, sep) - 1) ELSE s

CutAfter(s, sep) ==
    IF Contains(s, sep) THEN Drop(s, Index(s, sep) + Len(sep) - 1) ELSE ""

WhiteSpace == {" "}

RECURSIVE TrimLeft(_, _)
TrimLeft(s, cutset) ==
    IF Len(s) > 0 /\ Chr(s, 1) \in cutset THEN TrimLeft(Drop(s, 1), cutset) ELSE s

RECURSIVE TrimRight(_, _)
TrimRight(s, cutset) ==
    IF Len(s) > 0 /\ Chr(s, Len(s)) \in cutset
    THEN TrimRight(Take(s, Len(s) - 1), cutset)
    ELSE s

Trim(s, cutset) == TrimRight(TrimLeft(s, cutset), cutset)

TrimSpace(s) == Trim(s, WhiteSpace)

\* strings.Split(s, sep) for a one-character sep
RECURSIVE Split(_, _)
Split(s, sep) ==
    IF Contains(s, sep)
    THEN <<CutBefore(s, sep)>> \o Split(CutAfter(s, sep), sep)
    ELSE <<s>>

(***************************************************************************)
(* net/url: url.Parse, as far as Host and Path go                          *)
(***************************************************************************)
Letters ==
    {"a", "b", "c", "d", "e", "f", "g", "h", "i", "j", "k", "l", "m",
     "n", "o", "p", "q", "r", "s", "t", "u", "v", "w", "x", "y", "z",
     "A", "B", "C", "D", "E", "F", "G", "H", "I", "J", "K", "L", "M",
     "N", "O", "P", "Q", "R", "S", "T", "U", "V", "W", "X", "Y", "Z"}

Digits == {"0", "1", "2", "3", "4", "5", "6", "7", "8", "9"}

SchemeExtra == Digits \cup {"+", "-", "."}

\* getScheme: the first byte that ends the scan
SchemeStop(s) ==
    LET stops == {k \in 1..Len(s) :
                     /\ Chr(s, k) \notin Letters
                     /\ (Chr(s, k) \notin SchemeExtra \/ k = 1)}
    IN  IF stops = {} THEN 0 ELSE CHOOSE k \in stops : \A j \in stops : k <= j

getScheme(s) ==
    LET k == SchemeStop(s)
    IN  IF k # 0 /\ Chr(s, k) = ":"
        THEN IF k = 1
             THEN [err |-> TRUE, scheme |-> "", rest |-> ""]
             ELSE [err |-> FALSE, scheme |-> Take(s, k - 1), rest |-> Drop(s, k)]
        ELSE [err |-> FALSE, scheme |-> "", rest |-> s]

\* validOptionalPort on the text after the host name
ValidPort(hostport) ==
    \/ ~Contains(hostport, ":")
    \/ \A k \in 1..Len(CutAfter(hostport, ":")) :
          Chr(CutAfter(hostport, ":"), k) \in Digits

\* parseAuthority / parseHost: userinfo dropped, host kept with its port
ParseAuthority(authority) ==
    LET host == IF Contains(authority, "@") THEN CutAfter(authority, "@")
                ELSE authority
    IN  IF Contains(host, " ") \/ ~ValidPort(host)
        THEN [err |-> TRUE, host |-> ""]
        ELSE [err |-> FALSE, host |-> host]

HexDigits == Digits \cup {"A", "B", "C", "D", "E", "F", "a", "b", "c", "d", "e", "f"}

\* the bytes of the percent-escapes that occur in the inputs of the model
EscapedBytes == [h \in {"20", "3F"} |-> IF h = "20" THEN " " ELSE "?"]

\* unescape(s, encodePath), by which url.Parse sets URL.Path: every %XX
\* becomes its byte, a % without two hex digits is an error
RECURSIVE PathUnescape(_)
PathUnescape(s) ==
    IF s = "" THEN [err |-> FALSE, text |-> ""]
    ELSE IF Chr(s, 1) = "%"
    THEN IF Len(s) < 3 \/ Chr(s, 2) \notin HexDigits \/ Chr(s, 3) \notin HexDigits
         THEN [err |-> TRUE, text |-> ""]
         ELSE LET r == PathUnescape(Drop(s, 3))
              IN  IF r.err THEN r
                  ELSE [err |-> FALSE, text |-> EscapedBytes[SubSeq(s, 2, 3)] \o r.text]
    ELSE LET r == PathUnescape(Drop(s, 1))
         IN  IF r.err THEN r
             ELSE [err |-> FALSE, text |-> Chr(s, 1) \o r.text]

ParseError == [err |-> TRUE, host |-> "", path |-> ""]

\* url.Parse(rawURL): fragment cut, scheme, query cut, authority, path
\* (unescaped)
Parse(rawURL) ==
    LET noFrag == CutBefore(rawURL, "#")
        sch == getScheme(noFrag)
        rest == CutBefore(sch.rest, "?")
    IN  IF sch.err THEN ParseError
        ELSE IF ~HasPrefix(rest, "/") /\ sch.scheme # ""
        THEN [err |-> FALSE, host |-> "", path |-> ""]         \* opaque
        ELSE IF ~HasPrefix(rest, "/") /\ Contains(CutBefore(rest, "/"), ":")
        THEN ParseError               \* colon in the first path segment
        ELSE IF HasPrefix(rest, "//") /\ (sch.scheme # "" \/ ~HasPrefix(rest, "///"))
        THEN LET auth == Drop(rest, 2)
                 hostPart == CutBefore(auth, "/")
                 pathPart == IF Contains(auth, "/")
                             THEN Drop(auth, Index(auth, "/") - 1)
                             ELSE ""
                 a == ParseAuthority(hostPart)
                 p == PathUnescape(pathPart)
             IN  IF a.err \/ p.err THEN ParseError
                 ELSE [err |-> FALSE, host |-> a.host, path |-> p.text]
        ELSE LET p == PathUnescape(rest)
             IN  IF p.err THEN ParseError
                 ELSE [err |-> FALSE, host |-> "", path |-> p.text]

(***************************************************************************)
(* part_002 157-211: resolveURL, isShareLink, resolveShareLink             *)
(***************************************************************************)
\* lines 158-161: trim, then prepend https:// when the text does not begin
\* with "http"
NormalizeInput(inputURL) ==
    LET t == TrimSpace(inputURL)
    IN  IF ~HasPrefix(t, "http") THEN "https://" \o t ELSE t

\* line 164 without the test on the domain token
ValidHostAnyDomain(u) == ~u.err /\ u.host # ""

\* line 164
ValidHost(u) == ~u.err /\ u.host # "" /\ Contains(u.host, "reddit.com")

isShareLink(path) ==
    LET parts == Split(Trim(path, {"/"}), "/")
    IN  Len(parts) = 4 /\ parts[1] = "r" /\ parts[3] = "s" /\ parts[4] # ""

\* line 177
Canonical(u) == "https://www.reddit.com" \o u.path

\* resolveShareLink on the upstream's answer env = [fail, loc]
resolveShareLink(env) ==
    IF env.fail THEN [err |-> "transport", u |-> ParseError]
    ELSE IF env.loc = "" THEN [err |-> "InvalidURL", u |-> ParseError]
    ELSE LET u == Parse(env.loc)
         IN  IF u.err \/ ~Contains(u.host, "reddit.com")
             THEN [err |-> "InvalidURL", u |-> ParseError]
             ELSE [err |-> "none", u |-> u]

\* resolveURL as a whole, for an upstream that answers env to a share-link
\* request: the returned error and URL, and the requests sent
Resolve(inputURL, env) ==
    LET norm == NormalizeInput(inputURL)
        u == Parse(norm)
    IN  IF ~ValidHost(u)
        THEN [err |-> "InvalidURL", url |-> "", requests |-> <<>>]
        ELSE IF isShareLink(u.path)
        THEN LET r == resolveShareLink(env)
             IN  IF r.err # "none"
                 THEN [err |-> r.err, url |-> "", requests |-> <<norm>>]
                 ELSE [err |-> "none", url |-> Canonical(r.u), requests |-> <<norm>>]
        ELSE [err |-> "none", url |-> Canonical(u), requests |-> <<>>]

(***************************************************************************)
(* Inputs of resolveURL and answers of the upstream                        *)
(***************************************************************************)
InLeads == {"", " "}

InSchemes == {"", "https://", "http://"}

InHosts == {"www.reddit.com", "old.reddit.com", "http.reddit.com",
            "reddit.com:8080", "redd.it", "example.com", ""}

InPaths == {"", "/r/pics/comments/abc/", "/r/pics/s/xyz", "/r//s/xyz",
            "/r/pics/s/xyz/more", "/abc123", "/r/pics/comments/abc/what%3F",
            "/r/pics/comments/abc/a%zz"}

InTails == {"", "?utm=1#top"}

ResolveInputs ==
    {l \o sc \o h \o p \o t :
        l \in InLeads, sc \in InSchemes, h \in InHosts, p \in InPaths, t \in InTails}

NoEnv == [set |-> FALSE, fail |-> FALSE, loc |-> ""]

Locations == {"", "https://www.reddit.com/r/pics/comments/abc/title/?share_id=1#x",
              "https://old.reddit.com/r/pics/comments/abc",
              "https://evil.example/r/pics/comments/abc",
              "https://reddit.com.evil.example/r/pics/comments/abc",
              "/r/pics/comments/abc", ":bad"}

Envs == {[set |-> TRUE, fail |-> TRUE, loc |-> ""]}
        \cup {[set |-> TRUE, fail |-> FALSE, loc |-> l] : l \in Locations}

NoResult == [err |-> "pending", url |-> ""]

RIdle ==
    /\ rPc = "start"
    /\ rURL = ""
    /\ rResult = NoResult
    /\ rRequests = <<>>
    /\ rEnv = NoEnv

\* lines 157-174 up to the call of resolveShareLink, and line 177 when the
\* path is no share link
ResolveURL ==
    /\ rPc = "start"
    /\ LET norm == NormalizeInput(rInput)
           u == Parse(norm)
       IN  /\ rURL' = norm
           /\ IF ~ValidHost(u)
              THEN /\ rResult' = [err |-> "InvalidURL", url |-> ""]
                   /\ rPc' = "done"
              ELSE IF isShareLink(u.path)
              THEN /\ rPc' = "share"
                   /\ UNCHANGED rResult
              ELSE /\ rResult' = [err |-> "none", url |-> Canonical(u)]
                   /\ rPc' = "done"
    /\ UNCHANGED <<rInput, rRequests, rEnv>>
    /\ UNCHANGED <<dlVars, cVars, xVars, sVars, fVars>>

\* lines 170-177 and 189-211: the share link is requested without following
\* redirects and the upstream answers env
ResolveShareLink ==
    /\ rPc = "share"
    /\ \E env \in Envs :
         LET r == resolveShareLink(env)
         IN  /\ rEnv' = env
             /\ rRequests' = Append(rRequests, rURL)
             /\ rResult' = IF r.err # "none"
                           THEN [err |-> r.err, url |-> ""]
                           ELSE [err |-> "none", url |-> Canonical(r.u)]
    /\ rPc' = "done"
    /\ UNCHANGED <<rInput, rURL>>
    /\ UNCHANGED <<dlVars, cVars, xVars, sVars, fVars>>

(***************************************************************************)
(* part_004 58-75: detectExtension                                         *)
(***************************************************************************)
UpperLetters == "ABCDEFGHIJKLMNOPQRSTUVWXYZ"

LowerLetters == "abcdefghijklmnopqrstuvwxyz"

\* strings.ToLower on ASCII text
RECURSIVE ToLower(_)
ToLower(s) ==
    IF s = "" THEN ""
    ELSE LET c == Chr(s, 1)
             l == IF Contains(UpperLetters, c)
                  THEN Chr(LowerLetters, Index(UpperLetters, c))
                  ELSE c
         IN  l \o ToLower(Drop(s, 1))

\* path.Ext: the suffix from the last dot of the last slash-separated
\* element, empty when that element has no dot
RECURSIVE PathExt(_)
PathExt(p) ==
    IF Contains(p, "/") THEN PathExt(CutAfter(p, "/"))
    ELSE IF ~Contains(p, ".") THEN ""
    ELSE LET after == CutAfter(p, ".")
         IN  IF Contains(after, ".") THEN PathExt(after) ELSE "." \o after

\* line 63
KnownExts == {".png", ".gif", ".jpg", ".jpeg", ".webp"}

\* mime.ParseMediaType as far as ExtensionsByType uses it: the media type
\* before the parameters, trimmed and in lower case
MediaType(contentType) == ToLower(TrimSpace(CutBefore(contentType, ";")))

\* mime.ExtensionsByType: the sorted extensions of the media type.  The
\* table is the built-in one or the one the host's mime.types files supply;
\* which one is in force depends on the machine the program runs on.
ExtensionsByType(contentType, table) ==
    LET t == MediaType(contentType)
    IN  IF t = "image/jpeg"
        THEN IF table = "builtin" THEN <<".jpeg", ".jpg">>
             ELSE <<".jfif", ".jpe", ".jpeg", ".jpg">>
        ELSE IF t = "image/png" THEN <<".png">>
        ELSE IF t = "image/gif" THEN <<".gif">>
        ELSE IF t = "image/webp" THEN <<".webp">>
        ELSE IF t = "text/html" THEN <<".htm", ".html">>
        ELSE IF t = "image/bmp" /\ table = "system" THEN <<".bmp">>
        ELSE <<>>

\* detectExtension with the content type consulted before the URL
detectExtensionTypeFirst(urlStr, contentType, table) ==
    LET u == Parse(urlStr)
        ext == ToLower(PathExt(u.path))
        exts == ExtensionsByType(contentType, table)
    IN  IF contentType # "" /\ Len(exts) > 0 THEN exts[1]
        ELSE IF ~u.err /\ ext \in KnownExts THEN ext
        ELSE ".jpg"

\* lines 58-75
detectExtension(urlStr, contentType, table) ==
    LET u == Parse(urlStr)
        ext == ToLower(PathExt(u.path))
        exts == ExtensionsByType(contentType, table)
    IN  IF ~u.err /\ ext \in KnownExts THEN ext
        ELSE IF contentType # "" /\ Len(exts) > 0 THEN exts[1]
        ELSE ".jpg"

(***************************************************************************)
(* Inputs of detectExtension and resolvedExt                               *)
(***************************************************************************)
AssetURLs ==
    {"https://i.redd.it/pic.png", "https://i.redd.it/pic.PNG?width=10",
     "https://i.redd.it/pic.jpeg", "https://preview.redd.it/anim.gif?format=mp4",
     "https://i.redd.it/pic", "https://i.redd.it/pic.bmp",
     "https://i.redd.it/v1.2/pic", ":bad.png"}

ContentTypes ==
    {"", "image/jpeg", "image/png", "IMAGE/GIF", "image/webp; q=1",
     "image/bmp", "text/html", "application/octet-stream"}

MimeTables == {"builtin", "system"}

ExtInputs ==
    [url : AssetURLs, contentType : ContentTypes, table : MimeTables,
     format : Formats \cup {"jpg", "gif", "PNG"}]

NoExtInput == [url |-> "", contentType |-> "", table |-> "builtin", format |-> ""]

XIdle ==
    /\ xPc = "start"
    /\ xExt = ""
    /\ xOut = ""

\* part_002 228: StreamImage hands the URL and the Content-Type header to
\* detectExtension
DetectExtension ==
    /\ xPc = "start"
    /\ xExt' = detectExtension(xIn.url, xIn.contentType, xIn.table)
    /\ xPc' = "detected"
    /\ UNCHANGED <<xIn, xOut>>
    /\ UNCHANGED <<dlVars, rVars, cVars, sVars, fVars>>

\* handlers.go 138: the entry's extension is resolvedExt of the detected
\* extension and the format asked for
ResolvedExt ==
    /\ xPc = "detected"
    /\ xOut' = resolvedExt(xExt, xIn.format)
    /\ xPc' = "named"
    /\ UNCHANGED <<xIn, xExt>>
    /\ UNCHANGED <<dlVars, rVars, cVars, sVars, fVars>>

(***************************************************************************)
(* part_002 231-262: extractImages, with html.UnescapeString               *)
(***************************************************************************)
\* html.UnescapeString on the entities the listing uses: one pass, left to
\* right, the text produced by an entity is not scanned again
RECURSIVE UnescapeString(_)
UnescapeString(s) ==
    IF s = "" THEN ""
    ELSE IF HasPrefix(s, "&amp;") THEN "&" \o UnescapeString(Drop(s, 5))
    ELSE IF HasPrefix(s, "&lt;") THEN "<" \o UnescapeString(Drop(s, 4))
    ELSE IF HasPrefix(s, "&gt;") THEN ">" \o UnescapeString(Drop(s, 4))
    ELSE Chr(s, 1) \o UnescapeString(Drop(s, 1))

\* lines 238-241 with the animated and the static variant exchanged
MediaRawStaticFirst(media) == IF media.u = "" THEN media.gif ELSE media.u

\* lines 238-241: the animated variant, else the static one
MediaRaw(media) == IF media.gif = "" THEN media.u ELSE media.gif

\* lines 235-247: the loop over the gallery items
RECURSIVE GalleryImages(_, _)
GalleryImages(items, metadata) ==
    IF items = <<>> THEN <<>>
    ELSE LET rest == GalleryImages(Tail(items), metadata)
             id == Head(items)
         IN  IF id \in DOMAIN metadata /\ MediaRaw(metadata[id]) # ""
             THEN <<UnescapeString(MediaRaw(metadata[id]))>> \o rest
             ELSE rest

\* lines 249-255: the loop over the preview images
RECURSIVE PreviewImages(_)
PreviewImages(imgs) ==
    IF imgs = <<>> THEN <<>>
    ELSE LET rest == PreviewImages(Tail(imgs))
         IN  IF ~Head(imgs).gifNil
             THEN <<UnescapeString(Head(imgs).url)>> \o rest
             ELSE rest

\* extractImages without the guard of line 249 on the images found so far
extractImagesMixed(post) ==
    LET tier1 == IF post.isGallery /\ ~post.galleryData.nil
                 THEN GalleryImages(post.galleryData.items, post.mediaMetadata)
                 ELSE <<>>
        tier2 == IF ~post.preview.nil
                 THEN tier1 \o PreviewImages(post.preview.images)
                 ELSE tier1
    IN  IF Len(tier2) = 0 /\ post.url # ""
        THEN Append(tier2, UnescapeString(post.url))
        ELSE tier2

\* lines 231-262
extractImages(post) ==
    LET tier1 == IF post.isGallery /\ ~post.galleryData.nil
                 THEN GalleryImages(post.galleryData.items, post.mediaMetadata)
                 ELSE <<>>
        tier2 == IF Len(tier1) = 0 /\ ~post.preview.nil
                 THEN tier1 \o PreviewImages(post.preview.images)
                 ELSE tier1
    IN  IF Len(tier2) = 0 /\ post.url # ""
        THEN Append(tier2, UnescapeString(post.url))
        ELSE tier2

(***************************************************************************)
(* Posts the listing can carry (redditPost, part_002 76-99)                *)
(***************************************************************************)
NilGallery == [nil |-> TRUE, items |-> <<>>]

GalleryDatas ==
    {NilGallery}
    \cup {[nil |-> FALSE, items |-> it] :
            it \in {<<>>, <<"m1", "m2">>, <<"m2", "m1">>, <<"mx", "m1">>}}

Media1 == [u |-> "https://i.redd.it/a.jpg?w=1&amp;s=2", gif |-> ""]

Media2 == [u |-> "https://i.redd.it/b.png", gif |-> "https://i.redd.it/b.gif"]

MediaBlank == [u |-> "", gif |-> ""]

MediaMetadatas ==
    {[m \in {} |-> Media1],
     [m \in {"m1", "m2"} |-> IF m = "m1" THEN Media1 ELSE Media2],
     [m \in {"m1", "m2"} |-> IF m = "m1" THEN MediaBlank ELSE Media2],
     [m \in {"m1"} |-> Media1]}

NilPreview == [nil |-> TRUE, images |-> <<>>]

GifVariant == [gifNil |-> FALSE, url |-> "https://preview.redd.it/p.gif?f=1&amp;s=3"]

NoGifVariant == [gifNil |-> TRUE, url |-> ""]

BlankGifVariant == [gifNil |-> FALSE, url |-> ""]

Previews ==
    {NilPreview}
    \cup {[nil |-> FALSE, images |-> im] :
            im \in {<<>>, <<NoGifVariant>>, <<GifVariant>>, <<BlankGifVariant>>,
                    <<NoGifVariant, GifVariant>>}}

PostURLs == {"", "https://i.imgur.com/d.jpg?a=1&amp;b=2"}

Titles == {"", "A title"}

Posts ==
    [title : Titles, isGallery : BOOLEAN, url : PostURLs,
     galleryData : GalleryDatas, mediaMetadata : MediaMetadatas,
     preview : Previews]

(***************************************************************************)
(* part_002 113-152: FetchGallery, and StreamImage called on its own       *)
(***************************************************************************)
Statuses == {200, 204, 206, 302, 404}

ShareFollowed ==
    [set |-> TRUE, fail |-> FALSE,
     loc |-> "https://www.reddit.com/r/pics/comments/abc/title/?share_id=1#x"]

ShareFailed == [set |-> TRUE, fail |-> TRUE, loc |-> ""]

\* the postURL argument, with the upstream's answer to a share-link request
GalleryInputs ==
    {[url |-> "https://www.reddit.com/r/pics/comments/abc/", share |-> NoEnv],
     [url |-> "old.reddit.com/r/pics/comments/abc?x=1", share |-> NoEnv],
     [url |-> "https://example.com/r/pics/comments/abc", share |-> NoEnv],
     [url |-> "https://www.reddit.com/r/pics/s/xyz", share |-> ShareFollowed],
     [url |-> "https://www.reddit.com/r/pics/s/xyz", share |-> ShareFailed]}

BlankPost ==
    [title |-> "", isGallery |-> FALSE, url |-> "", galleryData |-> NilGallery,
     mediaMetadata |-> [m \in {} |-> Media1], preview |-> NilPreview]

DirectPost ==
    [title |-> "A title", isGallery |-> FALSE,
     url |-> "https://i.imgur.com/d.jpg?a=1&amp;b=2", galleryData |-> NilGallery,
     mediaMetadata |-> [m \in {} |-> Media1], preview |-> NilPreview]

\* the response body: not JSON of the expected shape ("garbage"), an empty
\* array ("empty"), a listing without children ("nochildren"), or a listing
\* whose first child is the post
GarbageBody == [kind |-> "garbage", post |-> BlankPost]

ListingBodies ==
    {GarbageBody, [kind |-> "empty", post |-> BlankPost],
     [kind |-> "nochildren", post |-> BlankPost]}
    \cup {[kind |-> "post", post |-> p] : p \in Posts}

GalleryAnswers ==
    {[transport |-> TRUE, status |-> 0, body |-> GarbageBody]}
    \cup {[transport |-> FALSE, status |-> StatusOK, body |-> b] : b \in ListingBodies}
    \cup {[transport |-> FALSE, status |-> s, body |-> b] :
            s \in Statuses \ {StatusOK},
            b \in {GarbageBody, [kind |-> "post", post |-> DirectPost]}}

\* what the upstream answers to the GET of an asset, and whether the
\* caller's context is already cancelled
AssetAnswers ==
    {[transport |-> TRUE, status |-> 0, contentType |-> "", table |-> "builtin",
      ctxDone |-> FALSE]}
    \cup [transport : {FALSE}, status : Statuses,
          contentType : {"", "image/jpeg", "image/png"}, table : MimeTables,
          ctxDone : BOOLEAN]

NoClientResult ==
    [err |-> "pending", code |-> 0, title |-> "", images |-> <<>>, url |-> "",
     ext |-> ""]

Failed(err, code) == [NoClientResult EXCEPT !.err = err, !.code = code]

CIdle ==
    /\ cPc = "start"
    /\ cURL = ""
    /\ cRequests = <<>>
    /\ cBody = FALSE
    /\ cResult = NoClientResult

CQuiet ==
    /\ cOp = "none"
    /\ cInput = [url |-> "", share |-> NoEnv]
    /\ cUp = [transport |-> TRUE, status |-> 0, body |-> GarbageBody]
    /\ CIdle

XQuiet ==
    /\ xIn = NoExtInput
    /\ XIdle

\* lines 115-120: resolveURL, and the listing's URL
FetchResolve ==
    /\ cOp = "FetchGallery" /\ cPc = "start"
    /\ \E r \in {Resolve(cInput.url, cInput.share)} :
           /\ cRequests' = cRequests \o r.requests
           /\ IF r.err # "none"
              THEN /\ cResult' = Failed(r.err, 0)
                   /\ cPc' = "done"
                   /\ UNCHANGED cURL
              ELSE /\ cURL' = TrimRight(r.url, {"/"}) \o ".json"
                   /\ cPc' = "request"
                   /\ UNCHANGED cResult
    /\ UNCHANGED <<cOp, cInput, cUp, cBody>>
    /\ UNCHANGED <<dlVars, rVars, xVars, sVars, fVars>>

\* lines 121-130: the GET of the listing
FetchRequest ==
    /\ cOp = "FetchGallery" /\ cPc = "request"
    /\ cRequests' = Append(cRequests, cURL)
    /\ IF cUp.transport
       THEN /\ cResult' = Failed("transport", 0)
            /\ cPc' = "done"
            /\ UNCHANGED cBody
       ELSE /\ cBody' = TRUE
            /\ cPc' = "status"
            /\ UNCHANGED cResult
    /\ UNCHANGED <<cOp, cInput, cUp, cURL>>
    /\ UNCHANGED <<dlVars, rVars, xVars, sVars, fVars>>

\* lines 132-134; the deferred Body.Close of line 130 runs on every return
FetchStatus ==
    /\ cOp = "FetchGallery" /\ cPc = "status"
    /\ IF cUp.status # StatusOK
       THEN /\ cResult' = Failed("status", cUp.status)
            /\ cBody' = FALSE
            /\ cPc' = "done"
       ELSE /\ cPc' = "decode"
            /\ UNCHANGED <<cResult, cBody>>
    /\ UNCHANGED <<cOp, cInput, cUp, cURL, cRequests>>
    /\ UNCHANGED <<dlVars, rVars, xVars, sVars, fVars>>

\* lines 136-139
FetchDecode ==
    /\ cOp = "FetchGallery" /\ cPc = "decode"
    /\ IF cUp.body.kind = "garbage"
       THEN /\ cResult' = Failed("decode", 0)
            /\ cBody' = FALSE
            /\ cPc' = "done"
       ELSE /\ cPc' = "listing"
            /\ UNCHANGED <<cResult, cBody>>
    /\ UNCHANGED <<cOp, cInput, cUp, cURL, cRequests>>
    /\ UNCHANGED <<dlVars, rVars, xVars, sVars, fVars>>

\* FetchGallery without the test of lines 141-143
FetchListingSkipped ==
    /\ cOp = "FetchGallery" /\ cPc = "listing"
    /\ cPc' = "extract"
    /\ UNCHANGED <<cResult, cBody>>
    /\ UNCHANGED <<cOp, cInput, cUp, cURL, cRequests>>
    /\ UNCHANGED <<dlVars, rVars, xVars, sVars, fVars>>

\* lines 141-143
FetchListing ==
    /\ cOp = "FetchGallery" /\ cPc = "listing"
    /\ IF cUp.body.kind \in {"empty", "nochildren"}
       THEN /\ cResult' = Failed("PostNotFound", 0)
            /\ cBody' = FALSE
            /\ cPc' = "done"
       ELSE /\ cPc' = "extract"
            /\ UNCHANGED <<cResult, cBody>>
    /\ UNCHANGED <<cOp, cInput, cUp, cURL, cRequests>>
    /\ UNCHANGED <<dlVars, rVars, xVars, sVars, fVars>>

\* lines 145-151 without the test of lines 147-149
FetchExtractUnchecked ==
    /\ cOp = "FetchGallery" /\ cPc = "extract"
    /\ LET post == cUp.body.post
       IN  cResult' = [err |-> "none", code |-> 0, title |-> post.title,
                       images |-> extractImages(post), url |-> cInput.url,
                       ext |-> ""]
    /\ cBody' = FALSE
    /\ cPc' = "done"
    /\ UNCHANGED <<cOp, cInput, cUp, cURL, cRequests>>
    /\ UNCHANGED <<dlVars, rVars, xVars, sVars, fVars>>

\* lines 145-151
FetchExtract ==
    /\ cOp = "FetchGallery" /\ cPc = "extract"
    /\ LET post == cUp.body.post
           images == extractImages(post)
       IN  cResult' = IF Len(images) = 0
                      THEN Failed("NoImages", 0)
                      ELSE [err |-> "none", code |-> 0, title |-> post.title,
                            images |-> images, url |-> cInput.url, ext |-> ""]
    /\ cBody' = FALSE
    /\ cPc' = "done"
    /\ UNCHANGED <<cOp, cInput, cUp, cURL, cRequests>>
    /\ UNCHANGED <<dlVars, rVars, xVars, sVars, fVars>>

\* lines 214-229: StreamImage on one asset URL
OpenAsset ==
    /\ cOp = "StreamImage" /\ cPc = "start"
    /\ \E r \in {StreamImage(cUp, cUp.ctxDone)} :
           /\ cRequests' = IF r.issued THEN Append(cRequests, cInput.url)
                           ELSE cRequests
           /\ cBody' = r.leftOpen
           /\ cResult' =
                IF r.err # "none" THEN Failed(r.err, r.code)
                ELSE [NoClientResult EXCEPT
                        !.err = "none",
                        !.ext = detectExtension(cInput.url, cUp.contentType,
                                                cUp.table)]
    /\ cPc' = "done"
    /\ UNCHANGED <<cOp, cInput, cUp, cURL>>
    /\ UNCHANGED <<dlVars, rVars, xVars, sVars, fVars>>

(***************************************************************************)
(* part_004 35-56: streamImage called on its own                           *)
(***************************************************************************)
\* sources whose bytes image.Decode accepts or rejects
ConvertSources == {a \in AssetKinds : ~a.transport /\ a.status = StatusOK}

ConvertFormats == Formats \cup {"jpg", "gif", "PNG", "webp"}

ConvertInputs ==
    [source : ConvertSources, format : ConvertFormats, readOK : BOOLEAN,
     writeOK : BOOLEAN]

NoConvertInput ==
    [source |-> CHOOSE a \in ConvertSources : a.decodable, format |-> "",
     readOK |-> TRUE, writeOK |-> TRUE]

NoConvertResult == [err |-> "pending", written |-> "empty"]

SIdle ==
    /\ sPc = "start"
    /\ sOut = NoConvertResult

SQuiet ==
    /\ sIn = NoConvertInput
    /\ SIdle

\* lines 35-56
StreamConvert ==
    /\ sPc = "start"
    /\ sOut' = streamImage(sIn.source, sIn.format, sIn.readOK, sIn.writeOK)
    /\ sPc' = "done"
    /\ UNCHANGED sIn
    /\ UNCHANGED <<dlVars, rVars, cVars, xVars, fVars>>

(***************************************************************************)
(* handlers.go 177-191: cleanFilename                                      *)
(***************************************************************************)
\* unicode.IsSpace, on the characters of the model
UnicodeSpace == {" ", "\t"}

\* the mapping with every other character turned into an underscore
NameRuneUnderscoreAll(c) ==
    IF c \in Letters \cup Digits THEN c ELSE "_"

\* lines 181-190: the mapping handed to strings.Map; "" stands for -1, the
\* character is dropped
NameRune(c) ==
    IF c \in Letters \cup Digits THEN c
    ELSE IF c \in UnicodeSpace THEN "_"
    ELSE ""

\* strings.Map(NameRune, s)
RECURSIVE MapRunes(_)
MapRunes(s) ==
    IF s = "" THEN "" ELSE NameRune(Chr(s, 1)) \o MapRunes(Drop(s, 1))

\* cleanFilename without the test of lines 178-180
cleanFilenameNoPlaceholder(s) == MapRunes(s)

\* lines 177-191
cleanFilename(s) == IF s = "" THEN "reddit_gallery" ELSE MapRunes(s)

MaxTitleLen == 3

TitleAlphabet == {"a", "Z", "7", " ", "\t", "!", "_"}

RECURSIVE TitleTexts(_)
TitleTexts(n) ==
    IF n = 0 THEN {""}
    ELSE LET shorter == TitleTexts(n - 1)
         IN  shorter \cup {t \o c : t \in shorter, c \in TitleAlphabet}

\* r.FormValue("page_title")
PageTitles == TitleTexts(MaxTitleLen) \cup {"My Gallery! 2024"}

FIdle ==
    /\ fPc = "start"
    /\ fOut = ""

FQuiet ==
    /\ fIn = ""
    /\ FIdle

\* handlers.go 119
CleanFilename ==
    /\ fPc = "start"
    /\ fOut' = cleanFilename(fIn)
    /\ fPc' = "done"
    /\ UNCHANGED fIn
    /\ UNCHANGED <<dlVars, rVars, cVars, xVars, sVars>>

(***************************************************************************)
(* Specifications                                                          *)
(***************************************************************************)
\* the download handlers: one request to /download-zip or /download-single
Init ==
    /\ DlInit
    /\ rInput = ""
    /\ RIdle
    /\ CQuiet
    /\ XQuiet
    /\ SQuiet
    /\ FQuiet

Next == DlNext

Spec == Init /\ [][Next]_vars

\* resolveURL on one input
DlQuiet ==
    /\ route = "none"
    /\ method = "GET"
    /\ formOK = TRUE
    /\ urls = <<>>
    /\ format = ""
    /\ DlIdle

InitResolve ==
    /\ DlQuiet
    /\ rInput \in ResolveInputs
    /\ RIdle
    /\ CQuiet
    /\ XQuiet
    /\ SQuiet
    /\ FQuiet

NextResolve ==
    \/ ResolveURL
    \/ ResolveShareLink

SpecResolve == InitResolve /\ [][NextResolve]_vars

\* one call of the client: FetchGallery on a post URL, or StreamImage on an
\* asset URL
RQuiet ==
    /\ rInput = ""
    /\ RIdle

InitClient ==
    /\ DlQuiet
    /\ RQuiet
    /\ XQuiet
    /\ \/ /\ cOp = "FetchGallery"
          /\ cInput \in GalleryInputs
          /\ cUp \in GalleryAnswers
       \/ /\ cOp = "StreamImage"
          /\ cInput \in {[url |-> a, share |-> NoEnv] : a \in AssetURLs}
          /\ cUp \in AssetAnswers
    /\ CIdle
    /\ SQuiet
    /\ FQuiet

NextClient ==
    \/ FetchResolve
    \/ FetchRequest
    \/ FetchStatus
    \/ FetchDecode
    \/ FetchListing
    \/ FetchExtract
    \/ OpenAsset

SpecClient == InitClient /\ [][NextClient]_vars

\* the extension of one entry: detectExtension, then resolvedExt
InitExt ==
    /\ DlQuiet
    /\ RQuiet
    /\ CQuiet
    /\ xIn \in ExtInputs
    /\ XIdle
    /\ SQuiet
    /\ FQuiet

NextExt ==
    \/ DetectExtension
    \/ ResolvedExt

SpecExt == InitExt /\ [][NextExt]_vars

\* one call of streamImage
InitConvert ==
    /\ DlQuiet
    /\ RQuiet
    /\ CQuiet
    /\ XQuiet
    /\ FQuiet
    /\ sIn \in ConvertInputs
    /\ SIdle

NextConvert == StreamConvert

SpecConvert == InitConvert /\ [][NextConvert]_vars

\* one call of cleanFilename
InitName ==
    /\ DlQuiet
    /\ RQuiet
    /\ CQuiet
    /\ XQuiet
    /\ SQuiet
    /\ fIn \in PageTitles
    /\ FIdle

NextName == CleanFilename

SpecName == InitName /\ [][NextName]_vars

(***************************************************************************)
(* Properties of archive assembly (specification Spec)                     *)
(***************************************************************************)
Assembling == route = "zip" /\ zNew

\* positions of urls whose fetch answers 200
FetchOK(k) == ~urls[k].transport /\ urls[k].status = 200

EntrySources == [k \in 1..Len(entries) |-> entries[k].src]

\* C1, as stated: once the request context is cancelled no further asset
\* fetch is started and no further archive entry is created, so that the
\* archive ends with the entries it had at the moment of cancellation.
C1_NoEntryAfterCancel ==
    (Assembling /\ cancelled) =>
        /\ Len(requests) = atCancel.requests
        /\ Len(entries) = Len(atCancel.entries)

\* C1, amended: cancellation is checked once per item, at the head of the
\* iteration. Once the context is cancelled no further asset request is
\* sent; the only entry that can still be created is the one of the item
\* whose fetch had already succeeded when the cancellation arrived; the
\* entries present at that moment keep their place and name, and the
\* complete ones their content; and the archive is finalized. A
\* cancellation that arrives after 1 of 4 entries was written and before the
\* next fetch has returned leaves a finalized archive of exactly 1 entry.
C1_CancelStopsAssembly ==
    (Assembling /\ cancelled) =>
        /\ Len(requests) = atCancel.requests
        /\ Len(entries) <=
              Len(atCancel.entries) + (IF atCancel.pc = "create" THEN 1 ELSE 0)
        /\ \A k \in 1..Len(atCancel.entries) :
              /\ k <= Len(entries)
              /\ entries[k].name = atCancel.entries[k].name
              /\ atCancel.entries[k].content = "complete"
                    => entries[k] = atCancel.entries[k]
        /\ pc = "done" => trailer = 1
        /\ (pc = "done" /\ atCancel.pc \in {"close", "loop", "fetch"})
              => Len(entries) = Len(atCancel.entries)

\* C1 witness: 4 URLs, the client disconnects between the first and the
\* second item, and the handler has returned with 1 complete entry.
C1_Witness ==
    /\ Assembling /\ pc = "done" /\ cancelled
    /\ Len(urls) = 4
    /\ atCancel.pc = "loop"
    /\ Len(atCancel.entries) = 1
    /\ Len(entries) = 1
    /\ entries[1].content = "complete"
    /\ requests = <<1>>
    /\ trailer = 1

\* C2, as stated: the k-th entry written to the archive is numbered k, so
\* the names are image_001, image_002, ... without gaps.
C2_NumberedByEmission ==
    \A k \in 1..Len(entries) : NameNumber(entries[k].name) = k

\* C2, amended: an entry is numbered by the position of its URL in the
\* submitted list: the entry of the URL at position p (1-based) is named
\* image_<p as 3 digits><ext>; the numbers increase along the archive and
\* skip the positions that produced no entry (3 URLs with the 2nd failing
\* give image_001 and image_003).
C2_NumberedByPosition ==
    \A k \in 1..Len(entries) :
        /\ entries[k].name =
              EntryName(entries[k].src, resolvedExt(urls[entries[k].src].ext, format))
        /\ NameNumber(entries[k].name) = entries[k].src
        /\ \A j \in 1..(k - 1) :
              NameNumber(entries[j].name) < NameNumber(entries[k].name)

\* C2 witness: 3 URLs, the 2nd fails, the archive holds entries 1 and 3.
C2_Witness ==
    /\ Assembling /\ pc = "done" /\ ~cancelled
    /\ Len(urls) = 3
    /\ FetchOK(1) /\ ~FetchOK(2) /\ FetchOK(3)
    /\ Len(entries) = 2
    /\ NameNumber(entries[1].name) = 1
    /\ NameNumber(entries[2].name) = 3

\* C3: without cancellation a failed fetch is not fatal: the loop calls
\* StreamImage for every URL in order, the archive holds one entry for each
\* URL whose fetch succeeded, in list order, and the handler ends with a
\* finalized archive and a success status.
C3_FetchFailureNotFatal ==
    (Assembling /\ pc = "done" /\ ~cancelled) =>
        /\ visited = [k \in 1..Len(urls) |-> k]
        /\ EntrySources = SelectSeq([k \in 1..Len(urls) |-> k], FetchOK)
        /\ trailer = 1
        /\ resp.status = 200
        /\ resp.body = "zip"

\* C3 witness: a finished archive in which a transport error and a non-200
\* status were skipped and a later URL still got its entry.
C3_Witness ==
    /\ Assembling /\ pc = "done" /\ ~cancelled
    /\ Len(urls) = 4
    /\ urls[1].transport
    /\ ~urls[2].transport /\ urls[2].status = 404
    /\ FetchOK(3) /\ FetchOK(4)
    /\ EntrySources = <<3, 4>>

\* C4: every entry of the finalized archive holds the complete output of a
\* successful stream/convert; an entry whose stream/convert failed is not
\* in the archive.
C4_FailedEntryDiscarded ==
    (Assembling /\ pc = "done") =>
        \A k \in 1..Len(entries) : entries[k].content = "complete"

\* C5: the trailer is written exactly once on every path out of the loop
\* (never before the handler leaves it), and no entry is created or written
\* after it.
C5_TrailerOnce ==
    /\ [](/\ trailer <= 1
          /\ (Assembling /\ pc = "done") => trailer = 1
          /\ pc # "done" => trailer = 0
          /\ ~zNew => trailer = 0)
    /\ [][trailer >= 1 => entries' = entries /\ trailer' = trailer]_vars

\* C5 witness: the loop was left by cancellation with an entry written and
\* the trailer is there.
C5_Witness ==
    /\ Assembling /\ pc = "done" /\ cancelled
    /\ i <= Len(urls)
    /\ Len(entries) >= 1
    /\ trailer = 1

\* C6: at most one asset stream is open at any time; none is open when a
\* fetch starts, after a failed fetch or when the handler has returned, and
\* between a successful fetch and its Close the open one is the current
\* item's.
C6_StreamsSerialNoLeak ==
    /\ Cardinality(open) <= 1
    /\ pc \in {"start", "loop", "fetch", "sfetch", "done"} => open = {}
    /\ pc \in {"create", "stream", "close", "sstream"} => open = {i}

\* C6 witness: the fetch of the 3rd URL is about to start after one stream
\* was copied and closed and one fetch ended in a non-200 status.
C6_Witness ==
    /\ Assembling /\ pc = "fetch" /\ i = 3
    /\ FetchOK(1) /\ ~urls[2].transport /\ urls[2].status = 404
    /\ requests = <<1, 2>>
    /\ Len(entries) = 1
    /\ open = {}

\* C7: a single-asset request whose conversion failed (undecodable bytes or
\* unsupported target) is answered with a failure status.
C7_ConversionFailureReported ==
    (pc = "done" /\ Len(urls) = 1 /\ lastErr \in {"decode", "unsupported"})
        => resp.status >= 400

\* C8: only a POST with 2 or more URLs creates an archive writer; with
\* exactly one URL no writer, entry or trailer exists, the handler runs the
\* single-asset path, and the response is the single-asset response for
\* that URL and format (502 on a failed fetch, else the download headers of
\* serveSingleImage and the streamed body).
C8_SingleUrlBypass ==
    /\ zNew => (route = "zip" /\ method = "POST" /\ formOK /\ Len(urls) >= 2)
    /\ (route = "zip" /\ method = "POST" /\ formOK /\ Len(urls) >= 2 /\ pc # "start")
          => zNew
    /\ ~zNew => (entries = <<>> /\ trailer = 0)
    /\ (route = "zip" /\ Len(urls) = 1) =>
          /\ pc \in {"start", "sfetch", "sstream", "done"}
          /\ resp.ctype # "application/zip"
          /\ (pc = "done" /\ method = "POST" /\ formOK) =>
                IF ~FetchOK(1) \/ requests = <<>>
                THEN resp = [NoResp EXCEPT !.status = 502, !.body = "error"]
                ELSE /\ resp.status = 200
                     /\ resp.disp =
                           SingleFileName(urls[1], resolvedExt(urls[1].ext, format))
                     /\ resp.ctype =
                           TypeByExtension(resolvedExt(urls[1].ext, format))
                     /\ resp.body \in {"complete", "partial", "empty"}

\* C8 witness: a POST to /download-zip with one URL has been answered with
\* the image itself.
C8_Witness ==
    /\ route = "zip" /\ method = "POST" /\ Len(urls) = 1
    /\ pc = "done"
    /\ resp.status = 200
    /\ resp.body = "complete"
    /\ resp.ctype = "image/png"
    /\ ~zNew

(***************************************************************************)
(* Properties of resolveURL (specification SpecResolve)                    *)
(***************************************************************************)
HasScheme(s) == HasPrefix(s, "http://") \/ HasPrefix(s, "https://")

Returned == [err |-> rResult.err, url |-> rResult.url, requests |-> rRequests]

\* C9: for an input without a scheme, resolveURL returns what it returns
\* for the same input prefixed with https://, with the same requests, for
\* every answer of the upstream.
C9_SchemelessAsHttps ==
    (rPc = "done" /\ ~HasScheme(TrimSpace(rInput))) =>
        \A env \in (IF rEnv.set THEN {rEnv} ELSE Envs) :
            Returned = Resolve("https://" \o TrimSpace(rInput), env)

\* C10: an input whose host is redd.it is not rejected as InvalidURL.
C10_ReddItAccepted ==
    (rPc = "done" /\ Parse(NormalizeInput(rInput)).host = "redd.it")
        => rResult.err # "InvalidURL"

HasSuffix(s, suffix) ==
    Len(s) >= Len(suffix) /\ Drop(s, Len(s) - Len(suffix)) = suffix

\* the host name without its port
HostName(host) == CutBefore(host, ":")

\* the host is reddit.com or one of its subdomains
OnUpstreamDomain(host) ==
    HostName(host) = "reddit.com" \/ HasSuffix(HostName(host), ".reddit.com")

\* the URL resolveURL parsed
ParsedInput == Parse(NormalizeInput(rInput))

\* C11: for a share link whose request was answered, exactly one request
\* was sent and the Location header decides: absent, unparsable or on a host
\* outside the upstream domain gives InvalidURL; otherwise the result is
\* the canonical host followed by the Location's path.
C11_LocationDecides ==
    (rPc = "done" /\ rEnv.set /\ ~rEnv.fail) =>
        LET loc == Parse(rEnv.loc)
        IN  /\ Len(rRequests) = 1
            /\ IF rEnv.loc = "" \/ loc.err \/ ~OnUpstreamDomain(loc.host)
               THEN rResult.err = "InvalidURL"
               ELSE rResult = [err |-> "none",
                               url |-> "https://www.reddit.com" \o loc.path]

\* /r/<subreddit>/s/<id> with every segment non-empty
ShareShape(path) ==
    LET parts == Split(Trim(path, {"/"}), "/")
    IN  /\ Len(parts) = 4
        /\ parts[1] = "r" /\ parts[2] # "" /\ parts[3] = "s" /\ parts[4] # ""

\* C12: for an accepted host, the redirect-inspection request is sent
\* exactly when the path has the four non-empty segments /r/<sub>/s/<id>.
C12_ShareLinkShape ==
    (rPc = "done" /\ ~ParsedInput.err /\ ParsedInput.host # ""
                  /\ Contains(ParsedInput.host, "reddit.com")) =>
        (rRequests # <<>> <=> ShareShape(ParsedInput.path))

C14_CanonicalForm ==
    (rPc = "done" /\ rResult.err = "none") =>
        /\ HasPrefix(rResult.url, "https://www.reddit.com")
        /\ ~Contains(rResult.url, "?") /\ ~Contains(rResult.url, "#")
        /\ (/\ ~rEnv.set
            /\ HasPrefix(rInput, "https://www.reddit.com")
            /\ ~Contains(rInput, "?") /\ ~Contains(rInput, "#"))
              => rResult.url = rInput

(***************************************************************************)
(* Properties of FetchGallery and StreamImage (specification SpecClient)   *)
(***************************************************************************)
\* the post of the listing FetchGallery decoded
ThePost == cUp.body.post

\* FetchGallery got as far as extractImages
Extracted ==
    /\ cOp = "FetchGallery" /\ cPc = "done"
    /\ cResult.err \in {"none", "NoImages"}

\* positions of the gallery items that have a metadata entry with a source
Emitting(post) ==
    {k \in 1..Len(post.galleryData.items) :
        /\ post.galleryData.items[k] \in DOMAIN post.mediaMetadata
        /\ LET media == post.mediaMetadata[post.galleryData.items[k]]
           IN  media.gif # "" \/ media.u # ""}

\* the URL expected for the item at position k: animated, else static
ItemURL(post, k) ==
    LET media == post.mediaMetadata[post.galleryData.items[k]]
    IN  UnescapeString(IF media.gif # "" THEN media.gif ELSE media.u)

\* C15: for a gallery post with items of which at least one has a source,
\* the images are, in item order, the animated (else static) source of each
\* item that has a metadata entry with a source, unescaped; two items, one
\* static-only and one animated, give exactly their two URLs in item order.
C15_GalleryItemsInOrder ==
    (Extracted /\ ThePost.isGallery /\ ~ThePost.galleryData.nil
               /\ Emitting(ThePost) # {}) =>
        LET em == Emitting(ThePost)
            rank(k) == Cardinality({j \in em : j <= k})
        IN  /\ cResult.err = "none"
            /\ Len(cResult.images) = Cardinality(em)
            /\ \A k \in em : cResult.images[rank(k)] = ItemURL(ThePost, k)
            /\ \A j \in 1..Len(cResult.images) :
                  ~Contains(cResult.images[j], "&amp;")
            /\ (/\ ThePost.galleryData.items = <<"m1", "m2">>
                /\ DOMAIN ThePost.mediaMetadata = {"m1", "m2"}
                /\ ThePost.mediaMetadata["m1"] = Media1
                /\ ThePost.mediaMetadata["m2"] = Media2)
                  => cResult.images = <<"https://i.redd.it/a.jpg?w=1&s=2",
                                        "https://i.redd.it/b.gif">>

C15_Witness ==
    /\ Extracted
    /\ ThePost.isGallery
    /\ ThePost.galleryData.items = <<"m2", "m1">>
    /\ DOMAIN ThePost.mediaMetadata = {"m1", "m2"}
    /\ ThePost.mediaMetadata["m1"] = Media1
    /\ cResult.images = <<"https://i.redd.it/b.gif",
                          "https://i.redd.it/a.jpg?w=1&s=2">>

\* what each tier yields on its own
Tier1(post) ==
    IF post.isGallery /\ ~post.galleryData.nil
    THEN [j \in 1..Cardinality(Emitting(post)) |->
            ItemURL(post, CHOOSE k \in Emitting(post) :
                            Cardinality({h \in Emitting(post) : h <= k}) = j)]
    ELSE <<>>

Tier2(post) ==
    IF post.preview.nil THEN <<>>
    ELSE LET gifs == {k \in 1..Len(post.preview.images) :
                        ~post.preview.images[k].gifNil}
         IN  [j \in 1..Cardinality(gifs) |->
                UnescapeString(post.preview.images[
                    CHOOSE k \in gifs : Cardinality({h \in gifs : h <= k}) = j].url)]

Tier3(post) == IF post.url = "" THEN <<>> ELSE <<UnescapeString(post.url)>>

\* C16: the images are those of exactly one tier, the first of gallery
\* items, preview animated variants and direct URL that yields a non-empty
\* sequence; the direct URL appears only when the first two tiers yield
\* nothing, and then alone and unescaped.
C16_FirstTierWins ==
    Extracted =>
        /\ cResult.images =
              IF Tier1(ThePost) # <<>> THEN Tier1(ThePost)
              ELSE IF Tier2(ThePost) # <<>> THEN Tier2(ThePost)
              ELSE Tier3(ThePost)
        /\ (Tier1(ThePost) = <<>> /\ Tier2(ThePost) = <<>> /\ ThePost.url # "")
              => cResult.images = <<"https://i.imgur.com/d.jpg?a=1&b=2">>

C16_Witness ==
    /\ Extracted
    /\ Tier1(ThePost) # <<>> /\ Tier2(ThePost) # <<>> /\ Tier3(ThePost) # <<>>
    /\ cResult.images = Tier1(ThePost)

\* FetchGallery reached extractImages: the URL resolved, the listing was
\* served with status 200 and its first child is a post
ListingServed ==
    /\ cOp = "FetchGallery"
    /\ Resolve(cInput.url, cInput.share).err = "none"
    /\ ~cUp.transport /\ cUp.status = 200
    /\ cUp.body.kind = "post"

\* C17: a Gallery FetchGallery returns has at least one image, and when
\* the listing holds a post FetchGallery fails with NoImages exactly when
\* the three tiers are all empty.
C17_GalleryHasImages ==
    (cOp = "FetchGallery" /\ cPc = "done") =>
        /\ cResult.err = "none" => Len(cResult.images) >= 1
        /\ cResult.err = "NoImages" => ListingServed
        /\ ListingServed =>
              (cResult.err = "NoImages" <=>
                 (/\ Tier1(ThePost) = <<>>
                  /\ Tier2(ThePost) = <<>>
                  /\ Tier3(ThePost) = <<>>))

C17_Witness ==
    /\ cOp = "FetchGallery" /\ cPc = "done"
    /\ ListingServed
    /\ ThePost.isGallery /\ ThePost.galleryData.items = <<"mx", "m1">>
    /\ ~ThePost.preview.nil
    /\ cResult = Failed("NoImages", 0)

\* a response arrived for the request of the listing or of the asset
Answered ==
    /\ cPc = "done"
    /\ ~cUp.transport
    /\ \/ cOp = "FetchGallery" /\ Resolve(cInput.url, cInput.share).err = "none"
       \/ cOp = "StreamImage" /\ ~cUp.ctxDone

\* C18 as stated: the call fails with the status code exactly when the
\* status is outside 200..299.
C18_FailsOnNon2xx ==
    Answered =>
        /\ (cResult.err = "status") <=> (cUp.status \notin 200..299)
        /\ cResult.err = "status" => (cResult.code = cUp.status /\ ~cBody)

\* C18: the gallery fetch and the asset open fail with the status code
\* exactly when the status of the response is not 200, and no body is left
\* open then; with status 200 the asset open hands over the open body.
C18_FailsOnNon200 ==
    Answered =>
        /\ (cResult.err = "status") <=> (cUp.status # 200)
        /\ cResult.err = "status" => (cResult.code = cUp.status /\ ~cBody)
        /\ (cOp = "StreamImage" /\ cUp.status = 200)
              => (cResult.err = "none" /\ cBody)

C18_Witness ==
    /\ Answered
    /\ cOp = "StreamImage"
    /\ cUp.status = 204
    /\ cResult = Failed("status", 204)
    /\ ~cBody
    /\ Len(cRequests) = 1

(***************************************************************************)
(* Properties of extension resolution (specification SpecExt)              *)
(***************************************************************************)
\* the extension of the URL's path in lower case, "" when the URL does not
\* parse
PathExtLower ==
    LET u == Parse(xIn.url)
    IN  IF u.err THEN "" ELSE ToLower(PathExt(u.path))

JpegExts == {".jpeg", ".jpg", ".jpe", ".jfif"}

\* C19: a known image extension at the end of the URL's path, compared
\* without regard to case, is returned whatever the content type; else the
\* first extension registered for the content type (a jpeg extension for
\* image/jpeg); else .jpg.
C19_DetectionPriority ==
    xPc # "start" =>
        LET byType == ExtensionsByType(xIn.contentType, xIn.table)
        IN  /\ PathExtLower \in KnownExts => xExt = PathExtLower
            /\ (PathExtLower \notin KnownExts /\ byType # <<>>)
                  => xExt = byType[1]
            /\ (PathExtLower \notin KnownExts /\ byType = <<>>) => xExt = ".jpg"
            /\ xIn.url = "https://i.redd.it/pic.png" => xExt = ".png"
            /\ xIn.url = "https://i.redd.it/pic.PNG?width=10" => xExt = ".png"
            /\ (xIn.url = "https://i.redd.it/pic" /\ xIn.contentType = "image/jpeg")
                  => xExt \in JpegExts

C19_Witness ==
    /\ xPc # "start"
    /\ xIn.url = "https://i.redd.it/pic.png"
    /\ xIn.contentType = "image/jpeg"
    /\ xExt = ".png"

\* C20: the extension of the entry is non-empty, begins with a dot and is
\* in lower case; for the target formats jpeg, png and gif it is .jpg, .png
\* and .gif, whatever was detected; for the original or unspecified format
\* it is the detected extension.
C20_NormalizedExtension ==
    xPc = "named" =>
        /\ Len(xOut) > 1 /\ Chr(xOut, 1) = "."
        /\ ToLower(xOut) = xOut
        /\ xIn.format \in {"", "original"} => xOut = xExt
        /\ xIn.format = "jpeg" => xOut = ".jpg"
        /\ xIn.format = "png" => xOut = ".png"
        /\ xIn.format = "gif" => xOut = ".gif"

(***************************************************************************)
(* Properties of streamImage (specification SpecConvert)                   *)
(***************************************************************************)
\* the source cannot be decoded: its bytes are no image, or reading fails
Undecodable == ~sIn.source.decodable \/ ~sIn.readOK

KeepsOriginal == sIn.format \in {"", "original"}

Supported == sIn.format \in {"jpg", "jpeg", "png", "gif"}

\* C21 as stated: a target that is no encode target fails as unsupported
\* for every source, a supported target with an undecodable source fails
\* as a decode failure, neither writes a byte, and the original or
\* unspecified format never fails as a decode failure.
C21_UnsupportedForEveryInput ==
    sPc = "done" =>
        /\ (~KeepsOriginal /\ ~Supported)
              => sOut = [err |-> "unsupported", written |-> "empty"]
        /\ (Supported /\ Undecodable)
              => sOut = [err |-> "decode", written |-> "empty"]
        /\ KeepsOriginal => sOut.err # "decode"

\* C21: with a target format the source is decoded first: an undecodable
\* source fails as a decode failure whatever the target, a decodable one
\* with a target that is no encode target fails as unsupported, neither
\* writes a byte, and the original or unspecified format is copied without
\* decoding.
C21_DecodeBeforeTarget ==
    sPc = "done" =>
        /\ (~KeepsOriginal /\ Undecodable)
              => sOut = [err |-> "decode", written |-> "empty"]
        /\ (~KeepsOriginal /\ ~Undecodable /\ ~Supported)
              => sOut = [err |-> "unsupported", written |-> "empty"]
        /\ KeepsOriginal => sOut.err \in {"none", "copy"}

C21_Witness ==
    /\ sPc = "done"
    /\ sIn.format = "bmp"
    /\ ~sIn.source.decodable /\ sIn.readOK
    /\ sOut = [err |-> "decode", written |-> "empty"]

(***************************************************************************)
(* Properties of cleanFilename (specification SpecName)                    *)
(***************************************************************************)
AlNum == Letters \cup Digits

\* the characters of s that are in set, in order
RECURSIVE Filter(_, _)
Filter(s, set) ==
    IF s = "" THEN ""
    ELSE (IF Chr(s, 1) \in set THEN Chr(s, 1) ELSE "") \o Filter(Drop(s, 1), set)

\* C22 as stated: every character that is no letter or digit is replaced
\* by an underscore, so the name is as long as the title; the empty title
\* gives the placeholder.
C22_EveryOtherCharUnderscore ==
    fPc = "done" =>
        IF fIn = "" THEN fOut = "reddit_gallery"
        ELSE /\ Len(fOut) = Len(fIn)
             /\ \A k \in 1..Len(fIn) :
                   Chr(fOut, k) = IF Chr(fIn, k) \in AlNum THEN Chr(fIn, k) ELSE "_"

\* the positions of the title whose character is kept or replaced
KeptPositions == {k \in 1..Len(fIn) : Chr(fIn, k) \in AlNum \cup {" ", "\t"}}

\* C22: letters and digits are kept, a whitespace character becomes an
\* underscore and every other character is removed, so the name has one
\* character for each letter, digit and whitespace character of the title,
\* in order; only the empty title gives the placeholder.
C22_OtherCharsRemoved ==
    fPc = "done" =>
        IF fIn = "" THEN fOut = "reddit_gallery"
        ELSE /\ Len(fOut) = Cardinality(KeptPositions)
             /\ \A k \in KeptPositions :
                   Chr(fOut, Cardinality({j \in KeptPositions : j <= k})) =
                     IF Chr(fIn, k) \in AlNum THEN Chr(fIn, k) ELSE "_"

C22_Witness ==
    /\ fPc = "done"
    /\ fIn = "a! "
    /\ fOut = "a_"

\* C23: the empty title gives reddit_gallery and "My Gallery! 2024" gives
\* My_Gallery_2024; the letters and digits of the name are those of the
\* title, it has one underscore for each whitespace character of the title,
\* and nothing else.
C23_SanitizationExamples ==
    fPc = "done" =>
        /\ fIn = "" => fOut = "reddit_gallery"
        /\ fIn = "My Gallery! 2024" => fOut = "My_Gallery_2024"
        /\ fIn # "" =>
              /\ Filter(fOut, AlNum) = Filter(fIn, AlNum)
              /\ Len(Filter(fOut, {"_"})) = Len(Filter(fIn, {" ", "\t"}))
              /\ Len(fOut) = Len(Filter(fOut, AlNum)) + Len(Filter(fOut, {"_"}))

C23_Witness ==
    /\ fPc = "done"
    /\ fIn = "My Gallery! 2024"
    /\ fOut = "My_Gallery_2024"

(***************************************************************************)
(* Order of the steps of FetchGallery (specification SpecClient)           *)
(***************************************************************************)
StepRank ==
    [p \in {"start", "request", "status", "decode", "listing", "extract", "done"}
       |-> CASE p = "start"   -> 0
             [] p = "request" -> 1
             [] p = "status"  -> 2
             [] p = "decode"  -> 3
             [] p = "listing" -> 4
             [] p = "extract" -> 5
             [] p = "done"    -> 6]

\* the error FetchGallery has to return when its steps run in order and the
\* first failure ends the call
FirstFailure ==
    LET res == Resolve(cInput.url, cInput.share)
    IN  IF res.err # "none" THEN res.err
        ELSE IF cUp.transport THEN "transport"
        ELSE IF cUp.status # 200 THEN "status"
        ELSE IF cUp.body.kind = "garbage" THEN "decode"
        ELSE IF cUp.body.kind \in {"empty", "nochildren"} THEN "PostNotFound"
        ELSE IF Tier1(ThePost) = <<>> /\ Tier2(ThePost) = <<>>
                /\ Tier3(ThePost) = <<>> THEN "NoImages"
        ELSE "none"

\* the requests of a finished call: those of the resolution, then, when it
\* succeeded, the one of the listing
OrderedRequests ==
    LET res == Resolve(cInput.url, cInput.share)
    IN  /\ res.err # "none" => cRequests = res.requests
        /\ res.err = "none" =>
              /\ cRequests = res.requests \o <<TrimRight(res.url, {"/"}) \o ".json">>
              /\ cInput.url = "https://www.reddit.com/r/pics/comments/abc/"
                    => cRequests = <<"https://www.reddit.com/r/pics/comments/abc.json">>

\* C24: FetchGallery goes through resolution, request, status check,
\* decoding, listing check and extraction in this order, each step either
\* moving to the next or ending the call; the call returns the failure of
\* the first step that fails, the listing is requested only after a
\* successful resolution, at <canonical URL without trailing slash>.json,
\* and an empty listing is PostNotFound, not NoImages.
C24_StepsInOrder ==
    /\ []((cOp = "FetchGallery" /\ cPc = "done") =>
            /\ cResult.err = FirstFailure
            /\ OrderedRequests
            /\ ~cBody)
    /\ [][cOp = "FetchGallery" =>
            \/ StepRank[cPc'] = StepRank[cPc] + 1
            \/ cPc' = "done" /\ cResult'.err # "none"]_vars

C24_Witness ==
    /\ cOp = "FetchGallery" /\ cPc = "done"
    /\ cUp.status = 200 /\ cUp.body.kind = "nochildren"
    /\ cResult = Failed("PostNotFound", 0)
    /\ cRequests = <<"https://www.reddit.com/r/pics/comments/abc.json">>

\* C25: every image URL of a returned Gallery is a non-empty string, and a
\* post whose only candidate is a preview animated variant with an empty
\* URL fails with NoImages.
C25_NoEmptyImageURL ==
    (cOp = "FetchGallery" /\ cPc = "done") =>
        /\ cResult.err = "none" =>
              \A j \in 1..Len(cResult.images) : cResult.images[j] # ""
        /\ (/\ ListingServed
            /\ Tier1(ThePost) = <<>>
            /\ ThePost.preview = [nil |-> FALSE, images |-> <<BlankGifVariant>>]
            /\ ThePost.url = "")
              => cResult.err = "NoImages"

====
